---- MODULE Spec2Model ----
(***************************************************************************)
(* Model of OxiLib (src/src/lib.rs): the configuration bootstrap library.  *)
(* The library keeps no state of its own; the state is the filesystem it   *)
(* reads and provisions.  Every public function is one action; what the    *)
(* last call was given, what it found and what it returned is recorded so  *)
(* that the properties can speak about calls.                              *)
(***************************************************************************)
EXTENDS Integers, Sequences, FiniteSets, TLC

\* Longest file content, in lines, that an external edit produces.
MaxLen == 2

\* Number of processes in the concurrent first-run provisioning of create_css.
NumProcs == 2

(***************************************************************************)
(* File content.  A content is a sequence of chunks; a chunk is one line   *)
(* of TOML text, or a byte run that is not valid UTF-8.                    *)
(*   something = 10 | something = 42 | what = "no" | something = "x" |     *)
(*   other = 1 | a line that is not TOML | bytes that are not UTF-8        *)
(*   k: the key of the line ("" when the line has no key = value shape)    *)
(*   t: "int" or "str" for the type of the value, "syntax" for a line that *)
(*      is not TOML, "byte" for bytes that do not decode                   *)
(*   n, s: the integer or string value                                     *)
(***************************************************************************)
LSomething10 == [k |-> "something", t |-> "int", n |-> 10, s |-> ""]
LSomething42 == [k |-> "something", t |-> "int", n |-> 42, s |-> ""]
LWhatNo == [k |-> "what", t |-> "str", n |-> 0, s |-> "no"]
LSomethingStr == [k |-> "something", t |-> "str", n |-> 0, s |-> "x"]
LOther1 == [k |-> "other", t |-> "int", n |-> 1, s |-> ""]
LGarbage == [k |-> "", t |-> "syntax", n |-> 0, s |-> ""]
LBadByte == [k |-> "", t |-> "byte", n |-> 0, s |-> ""]

Chunks ==
  {LSomething10, LSomething42, LWhatNo, LSomethingStr, LOther1, LGarbage, LBadByte}

Empty == <<>>

\* The literals a caller passes as default_config / css_content (&'static str,
\* hence always valid UTF-8).
Defaults ==
  {Empty, <<LSomething10>>, <<LWhatNo>>, <<LSomething42, LWhatNo>>,
   <<LSomethingStr>>, <<LGarbage>>}

(***************************************************************************)
(* Paths and the filesystem.                                               *)
(***************************************************************************)
Root == <<>>
AppDir == <<"app">>
AppFile == <<"app", "conf">>
Paths == {Root, AppDir, AppFile}
Names == {"app", "conf"}

Absent == [kind |-> "absent", data |-> Empty]
Dir == [kind |-> "dir", data |-> Empty]
File(bytes) == [kind |-> "file", data |-> bytes]

Parent(p) == SubSeq(p, 1, Len(p) - 1)

is_dir(fsys, p) == fsys[p].kind = "dir"
is_file(fsys, p) == fsys[p].kind = "file"

ParentIsDir(fsys, p) == Len(p) > 0 /\ is_dir(fsys, Parent(p))

\* fs::File::create: creates the file, or truncates it when it exists; fails
\* when the parent is no directory or the path is a directory.
FileCreate(fsys, p) ==
  IF ParentIsDir(fsys, p) /\ ~is_dir(fsys, p)
  THEN [ok |-> TRUE, fs |-> [fsys EXCEPT ![p] = File(Empty)]]
  ELSE [ok |-> FALSE, fs |-> fsys]

\* A write that appends to what the file holds instead of replacing it.
FsWriteAppending(fsys, p, bytes) ==
  IF ParentIsDir(fsys, p) /\ ~is_dir(fsys, p)
  THEN [ok |-> TRUE, fs |-> [fsys EXCEPT ![p] = File(fsys[p].data \o bytes)]]
  ELSE [ok |-> FALSE, fs |-> fsys]

\* fs::write: replaces the whole content of the file, creating it if needed.
FsWrite(fsys, p, bytes) ==
  IF ParentIsDir(fsys, p) /\ ~is_dir(fsys, p)
  THEN [ok |-> TRUE, fs |-> [fsys EXCEPT ![p] = File(bytes)]]
  ELSE [ok |-> FALSE, fs |-> fsys]

\* fs::create_dir: fails when the path exists or the parent is no directory.
FsCreateDir(fsys, p) ==
  IF ParentIsDir(fsys, p) /\ fsys[p].kind = "absent"
  THEN [ok |-> TRUE, fs |-> [fsys EXCEPT ![p] = Dir]]
  ELSE [ok |-> FALSE, fs |-> fsys]

\* fs::read: the bytes of a regular file.
FsRead(fsys, p) ==
  IF is_file(fsys, p) THEN [ok |-> TRUE, data |-> fsys[p].data]
  ELSE [ok |-> FALSE, data |-> Empty]

Utf8Ok(bytes) == \A i \in 1..Len(bytes) : bytes[i].t # "byte"

\* fs::read_to_string: the text of a regular file; fails when the bytes are
\* not valid UTF-8.
read_to_string(fsys, p) ==
  IF is_file(fsys, p) /\ Utf8Ok(fsys[p].data)
  THEN [ok |-> TRUE, data |-> fsys[p].data]
  ELSE [ok |-> FALSE, data |-> Empty]

(***************************************************************************)
(* The partial schema OptConf, its parser and the merge into Conf.         *)
(***************************************************************************)
NoneInt == [some |-> FALSE, n |-> 0]
NoneStr == [some |-> FALSE, s |-> ""]
OptConf(something, what) == [something |-> something, what |-> what]
Conf(something, what) == [something |-> something, what |-> what]

\* The fields of OptConf and the type of each; any other key is ignored.
Fields == {"something", "what"}
TypeOf(key) == IF key = "something" THEN "int" ELSE "str"

\* toml::from_str::<OptConf>: fails on a line that is not TOML, on a key
\* given twice and on a value of the wrong type for its field.
from_str(text) ==
  LET wellFormed == \A i \in 1..Len(text) : text[i].t \in {"int", "str"}
      unique == \A i, j \in 1..Len(text) : text[i].k = text[j].k => i = j
      typed == \A i \in 1..Len(text) :
                 text[i].k \in Fields => text[i].t = TypeOf(text[i].k)
      at(key) == CHOOSE i \in 1..Len(text) : text[i].k = key
      has(key) == \E i \in 1..Len(text) : text[i].k = key
  IN IF wellFormed /\ unique /\ typed
     THEN [ok |-> TRUE,
           val |-> OptConf(
             IF has("something") THEN [some |-> TRUE, n |-> text[at("something")].n]
             ELSE NoneInt,
             IF has("what") THEN [some |-> TRUE, s |-> text[at("what")].s]
             ELSE NoneStr)]
     ELSE [ok |-> FALSE, val |-> OptConf(NoneInt, NoneStr)]

\* A merge that ignores the value the file gives for `something`.
create_from_optional_dropping(optional) ==
  Conf(0, IF optional.what.some THEN optional.what.s ELSE "pingpang")

\* tests::Conf::create_from_optional
create_from_optional(optional) ==
  Conf(IF optional.something.some THEN optional.something.n ELSE 0,
       IF optional.what.some THEN optional.what.s ELSE "pingpang")

(***************************************************************************)
(* The public functions, as functions of the filesystem they are run on.   *)
(* Each returns the filesystem it leaves and its outcome: "ok" with a      *)
(* value, "err" (a ReadConfigFileError value) or "panic".                  *)
(***************************************************************************)
NoConf == Conf(0, "")
NoPath == Root

Panicked(fsys) ==
  [out |-> "panic", conf |-> NoConf, rpath |-> NoPath, text |-> Empty, fs |-> fsys]
ReadError(fsys) ==
  [out |-> "err", conf |-> NoConf, rpath |-> NoPath, text |-> Empty, fs |-> fsys]
OkConf(c, fsys) ==
  [out |-> "ok", conf |-> c, rpath |-> NoPath, text |-> Empty, fs |-> fsys]
OkPath(p, fsys) ==
  [out |-> "ok", conf |-> NoConf, rpath |-> p, text |-> Empty, fs |-> fsys]
OkText(t, fsys) ==
  [out |-> "ok", conf |-> NoConf, rpath |-> NoPath, text |-> t, fs |-> fsys]

\* A resolver that creates the directory without looking whether it exists.
create_config_folder_unchecked(fsys, base, config_path) ==
  IF ~base \/ ~is_dir(fsys, Root) THEN Panicked(fsys)
  ELSE LET made == FsCreateDir(fsys, Append(Root, config_path))
       IN IF made.ok THEN OkPath(Append(Root, config_path), made.fs)
          ELSE Panicked(fsys)

\* create_config_folder.  base: whether BaseDirs::new() finds a home.
create_config_folder(fsys, base, config_path) ==
  IF ~base THEN Panicked(fsys)
  ELSE IF ~is_dir(fsys, Root) THEN Panicked(fsys)
  ELSE LET config_dir == Append(Root, config_path)
       IN IF ~is_dir(fsys, config_dir)
          THEN LET made == FsCreateDir(fsys, config_dir)
               IN IF made.ok THEN OkPath(config_dir, made.fs) ELSE Panicked(fsys)
          ELSE OkPath(config_dir, fsys)

\* A reader that hands back an empty text where the file cannot be read.
read_specific_css_lenient(fsys, path) ==
  OkText(read_to_string(fsys, path).data, fsys)

\* read_specific_css
read_specific_css(fsys, path) ==
  IF ~is_file(fsys, path) THEN ReadError(fsys)
  ELSE LET content == read_to_string(fsys, path)
       IN IF ~content.ok THEN ReadError(fsys) ELSE OkText(content.data, fsys)

\* A selection that prefers the caller's default over what the file holds.
contents_default_first(rd, default_config) ==
  IF default_config # Empty THEN default_config ELSE rd.data

\* create_config, the text it parses: the file's, or the default when the
\* file is empty or cannot be read.
contents(rd, default_config) ==
  IF rd.ok
  THEN IF rd.data = Empty THEN default_config ELSE rd.data
  ELSE default_config

\* create_config, the parse: on failure the same text is parsed once more and
\* unwrapped; a result that is not ok is the panic of that unwrap.
parsed_conf(text, default_config) ==
  LET first == from_str(text)
  IN IF first.ok THEN first ELSE from_str(text)

\* A loader that provisions the new file with the default but parses what it
\* read before doing so.
create_config_stale(fsys, config_dir, config_file_name, default_config) ==
  LET config_file == IF config_file_name = "" THEN config_dir
                     ELSE Append(config_dir, config_file_name)
      made == IF ~is_file(fsys, config_file) THEN FileCreate(fsys, config_file)
              ELSE [ok |-> TRUE, fs |-> fsys]
  IN IF ~made.ok THEN Panicked(fsys)
     ELSE LET rd == read_to_string(made.fs, config_file)
              wr == IF rd.ok /\ rd.data = Empty
                    THEN FsWrite(made.fs, config_file, default_config)
                    ELSE [ok |-> TRUE, fs |-> made.fs]
              p == parsed_conf(rd.data, default_config)
          IN IF p.ok THEN OkConf(create_from_optional(p.val), wr.fs)
             ELSE Panicked(wr.fs)

\* A loader that truncates the file it is about to read.
create_config_truncating(fsys, config_dir, config_file_name, default_config) ==
  LET config_file == IF config_file_name = "" THEN config_dir
                     ELSE Append(config_dir, config_file_name)
      made == FileCreate(fsys, config_file)
  IN IF ~made.ok THEN Panicked(fsys)
     ELSE LET p == parsed_conf(default_config, default_config)
          IN IF p.ok THEN OkConf(create_from_optional(p.val), made.fs)
             ELSE Panicked(made.fs)

\* create_config
create_config(fsys, config_dir, config_file_name, default_config) ==
  LET config_file == IF config_file_name = "" THEN config_dir
                     ELSE Append(config_dir, config_file_name)
      made == IF ~is_file(fsys, config_file) THEN FileCreate(fsys, config_file)
              ELSE [ok |-> TRUE, fs |-> fsys]
  IN IF ~made.ok THEN Panicked(fsys)
     ELSE LET rd == read_to_string(made.fs, config_file)
              p == parsed_conf(contents(rd, default_config), default_config)
          IN IF p.ok THEN OkConf(create_from_optional(p.val), made.fs)
             ELSE Panicked(made.fs)

\* read_specific_config
read_specific_config(fsys, path) ==
  IF ~is_file(fsys, path) THEN ReadError(fsys)
  ELSE create_config(fsys, path, "", Empty)

\* A provisioner that writes the default whatever the file holds.
create_css_overwriting(fsys, config_dir, css_file_name, css_content) ==
  LET css_file == Append(config_dir, css_file_name)
      wr == FsWrite(fsys, css_file, css_content)
  IN IF wr.ok THEN OkPath(css_file, wr.fs) ELSE Panicked(fsys)

\* create_css
create_css(fsys, config_dir, css_file_name, css_content) ==
  LET css_file == Append(config_dir, css_file_name)
      made == IF ~is_file(fsys, css_file) THEN FileCreate(fsys, css_file)
              ELSE [ok |-> TRUE, fs |-> fsys]
  IN IF ~made.ok THEN Panicked(fsys)
     ELSE LET rd == FsRead(made.fs, css_file)
          IN IF ~rd.ok THEN Panicked(made.fs)
             ELSE IF rd.data = Empty
             THEN LET wr == FsWrite(made.fs, css_file, css_content)
                  IN IF wr.ok THEN OkPath(css_file, wr.fs) ELSE Panicked(made.fs)
             ELSE OkPath(css_file, made.fs)

(***************************************************************************)
(* State.                                                                  *)
(*   fs     the filesystem: the node at each path                          *)
(*   pre    the filesystem as it was when the last call began              *)
(*   last   the last call: its arguments, its outcome, and, when the call  *)
(*          before it was the same function on the same path and returned, *)
(*          what that call was given and returned                          *)
(*   procs  the position of each process of the concurrent provisioning    *)
(***************************************************************************)
VARIABLES fs, pre, last, procs

vars == <<fs, pre, last, procs>>

Procs == 1..NumProcs

NoCall ==
  [op |-> "none", dir |-> Root, name |-> "", default |-> Empty, base |-> TRUE,
   out |-> "ok", conf |-> NoConf, rpath |-> NoPath, text |-> Empty,
   again |-> FALSE, pdefault |-> Empty, pconf |-> NoConf]

Idle == [p \in Procs |-> [pc |-> "idle", content |-> Empty, empty |-> FALSE]]

EmptyFs == [p \in Paths |-> Absent]

Init ==
  /\ fs \in {EmptyFs, [EmptyFs EXCEPT ![Root] = Dir]}
  /\ pre = fs
  /\ last = NoCall
  /\ procs = Idle

\* The record of a call of `op` with the given arguments and result r.
Called(op, dir, name, default, base, r) ==
  LET same == last.op = op /\ last.dir = dir /\ last.name = name /\ last.out = "ok"
  IN /\ fs' = r.fs
     /\ pre' = fs
     /\ last' = [op |-> op, dir |-> dir, name |-> name, default |-> default,
                 base |-> base, out |-> r.out, conf |-> r.conf, rpath |-> r.rpath,
                 text |-> r.text, again |-> same,
                 pdefault |-> IF same THEN last.default ELSE Empty,
                 pconf |-> IF same THEN last.conf ELSE NoConf]
     /\ UNCHANGED procs

\* The path a call of create_config or create_css works on.
Target(dir, name) == IF name = "" THEN dir ELSE Append(dir, name)

\* The (directory, file name) pairs the calls are made with.
ConfigArgs == {a \in Paths \X ({""} \cup Names) : Target(a[1], a[2]) \in {AppDir, AppFile}}
CssArgs == {a \in Paths \X Names : Target(a[1], a[2]) \in {AppDir, AppFile}}

CreateConfigFolder ==
  \E base \in BOOLEAN :
    Called("create_config_folder", Root, "app", Empty, base,
           create_config_folder(fs, base, "app"))

ReadSpecificCss ==
  \E path \in Paths :
    Called("read_specific_css", path, "", Empty, TRUE, read_specific_css(fs, path))

ReadSpecificConfig ==
  \E path \in Paths :
    Called("read_specific_config", path, "", Empty, TRUE, read_specific_config(fs, path))

CreateConfig ==
  \E a \in ConfigArgs, default_config \in Defaults :
    Called("create_config", a[1], a[2], default_config, TRUE,
           create_config(fs, a[1], a[2], default_config))

CreateCss ==
  \E a \in CssArgs, css_content \in Defaults :
    Called("create_css", a[1], a[2], css_content, TRUE,
           create_css(fs, a[1], a[2], css_content))

(***************************************************************************)
(* The environment: what the user or another program does to the files     *)
(* between calls (the tests do each of these).                             *)
(***************************************************************************)
External(fsys) ==
  /\ fs' = fsys
  /\ pre' = fsys
  /\ last' = [NoCall EXCEPT !.op = "external"]
  /\ UNCHANGED procs

\* fs::File::create by the user.
ExternalCreate ==
  \E p \in {AppDir, AppFile} :
    /\ FileCreate(fs, p).ok
    /\ External(FileCreate(fs, p).fs)

\* write_all on an open file: the bytes are added to the file.
ExternalWriteAll ==
  \E p \in {AppDir, AppFile}, c \in Chunks :
    /\ is_file(fs, p)
    /\ Len(fs[p].data) < MaxLen
    /\ External([fs EXCEPT ![p] = File(Append(fs[p].data, c))])

\* fs::remove_file, fs::remove_dir_all.
ExternalRemove ==
  \E p \in {AppDir, AppFile} :
    /\ fs[p].kind # "absent"
    /\ External([q \in Paths |->
                  IF Len(q) >= Len(p) /\ SubSeq(q, 1, Len(p)) = p THEN Absent
                  ELSE fs[q]])

Next ==
  \/ CreateConfigFolder
  \/ ReadSpecificCss
  \/ ReadSpecificConfig
  \/ CreateConfig
  \/ CreateCss
  \/ ExternalCreate
  \/ ExternalWriteAll
  \/ ExternalRemove

Spec == Init /\ [][Next]_vars

(***************************************************************************)
(* Concurrent first-run provisioning: NumProcs processes run create_css on *)
(* the same path with the same content, one filesystem call at a time.     *)
(*   pc: "test" (is_file), "create" (File::create), "read" (fs::read),     *)
(*       "write" (fs::write), "done" (returned)                            *)
(***************************************************************************)
NonEmptyDefaults == Defaults \ {Empty}

RaceInit ==
  /\ fs = [EmptyFs EXCEPT ![Root] = Dir, ![AppDir] = Dir]
  /\ pre = fs
  /\ last = NoCall
  /\ \E c \in NonEmptyDefaults :
       procs = [p \in Procs |-> [pc |-> "test", content |-> c, empty |-> FALSE]]

IsFileStep(p) ==
  /\ procs[p].pc = "test"
  /\ procs' = [procs EXCEPT ![p].pc = IF is_file(fs, AppFile) THEN "read" ELSE "create"]
  /\ UNCHANGED <<fs, pre, last>>

CreateStep(p) ==
  /\ procs[p].pc = "create"
  /\ FileCreate(fs, AppFile).ok
  /\ fs' = FileCreate(fs, AppFile).fs
  /\ procs' = [procs EXCEPT ![p].pc = "read"]
  /\ UNCHANGED <<pre, last>>

ReadStep(p) ==
  /\ procs[p].pc = "read"
  /\ FsRead(fs, AppFile).ok
  /\ procs' = [procs EXCEPT
                 ![p].empty = FsRead(fs, AppFile).data = Empty,
                 ![p].pc = IF FsRead(fs, AppFile).data = Empty THEN "write" ELSE "done"]
  /\ UNCHANGED <<fs, pre, last>>

WriteStep(p) ==
  /\ procs[p].pc = "write"
  /\ FsWrite(fs, AppFile, procs[p].content).ok
  /\ fs' = FsWrite(fs, AppFile, procs[p].content).fs
  /\ procs' = [procs EXCEPT ![p].pc = "done"]
  /\ UNCHANGED <<pre, last>>

RaceNext ==
  \E p \in Procs :
    \/ IsFileStep(p)
    \/ CreateStep(p)
    \/ ReadStep(p)
    \/ WriteStep(p)

SpecRace == RaceInit /\ [][RaceNext]_vars

(***************************************************************************)
(* Properties of the calls.  In each, the call is the last one made: `pre` *)
(* is the filesystem it began with, `fs` the one it left.                  *)
(***************************************************************************)
LastTarget == Target(last.dir, last.name)

NonEmptyFile(fsys, p) == is_file(fsys, p) /\ fsys[p].data # Empty

AbsentOrEmpty(fsys, p) ==
  fsys[p].kind = "absent" \/ (is_file(fsys, p) /\ fsys[p].data = Empty)

LibraryOps ==
  {"create_config_folder", "read_specific_css", "read_specific_config",
   "create_config", "create_css"}

\* C1: create_config with a parseable, non-empty default on an absent or
\* empty file returns merge(parse(default)) and leaves the file holding
\* exactly the default.
C1_FirstRunProvisioning ==
  ( /\ last.op = "create_config"
    /\ last.default # Empty
    /\ from_str(last.default).ok
    /\ ParentIsDir(pre, LastTarget)
    /\ AbsentOrEmpty(pre, LastTarget) )
  => /\ last.out = "ok"
     /\ last.conf = create_from_optional(from_str(last.default).val)
     /\ fs[LastTarget] = File(last.default)

\* C2: create_config on a non-empty file whose text does not parse, with a
\* parseable default, returns what it would return had the file held the
\* default, does not abort, and leaves the file as it was.
C2_MalformedFallback ==
  ( /\ last.op = "create_config"
    /\ NonEmptyFile(pre, LastTarget)
    /\ Utf8Ok(pre[LastTarget].data)
    /\ ~from_str(pre[LastTarget].data).ok
    /\ from_str(last.default).ok )
  => /\ last.out = "ok"
     /\ last.conf = create_config([pre EXCEPT ![LastTarget] = File(last.default)],
                                  last.dir, last.name, last.default).conf
     /\ fs = pre

\* C3: create_config on a non-empty file whose text parses returns, whatever
\* the default, the file's value for each field the file gives and the type
\* default (0, "pingpang") for each field it does not give.
C3_UserEditPrecedence ==
  ( /\ last.op = "create_config"
    /\ NonEmptyFile(pre, LastTarget)
    /\ Utf8Ok(pre[LastTarget].data)
    /\ from_str(pre[LastTarget].data).ok )
  => LET text == pre[LastTarget].data
         lines(key) == {i \in 1..Len(text) : text[i].k = key}
     IN /\ last.out = "ok"
        /\ \A i \in lines("something") : last.conf.something = text[i].n
        /\ lines("something") = {} => last.conf.something = 0
        /\ \A i \in lines("what") : last.conf.what = text[i].s
        /\ lines("what") = {} => last.conf.what = "pingpang"

C3_Witness ==
  /\ last.op = "create_config"
  /\ pre[LastTarget] = File(<<LSomething42>>)
  /\ last.default = <<LSomething10>>
  /\ last.out = "ok"
  /\ last.conf = Conf(42, "pingpang")

\* C4: a create_config call that directly follows a returned create_config
\* call with the same arguments returns the same value and leaves the
\* filesystem as that first call left it.
C4_Idempotent ==
  (last.op = "create_config" /\ last.again /\ last.pdefault = last.default)
  => /\ last.out = "ok"
     /\ last.conf = last.pconf
     /\ fs = pre

C4_Witness ==
  /\ last.op = "create_config"
  /\ last.again
  /\ last.pdefault = last.default
  /\ last.default = <<LSomething10>>
  /\ last.out = "ok"
  /\ last.conf = Conf(10, "pingpang")
  /\ fs[LastTarget] = File(Empty)

\* C5: create_css on an absent or empty file leaves it holding exactly the
\* content and returns its path; on a non-empty file it returns the path and
\* writes nothing, whatever content it is given.
C5_AssetProvisioning ==
  last.op = "create_css"
  => /\ (ParentIsDir(pre, LastTarget) /\ AbsentOrEmpty(pre, LastTarget))
        => /\ last.out = "ok"
           /\ last.rpath = LastTarget
           /\ fs = [pre EXCEPT ![LastTarget] = File(last.default)]
     /\ NonEmptyFile(pre, LastTarget)
        => /\ last.out = "ok"
           /\ last.rpath = LastTarget
           /\ fs = pre

C5_Witness ==
  /\ last.op = "create_css"
  /\ last.again
  /\ last.pdefault # Empty
  /\ last.default # last.pdefault
  /\ last.default # Empty
  /\ last.out = "ok"
  /\ fs[LastTarget] = File(last.pdefault)

\* C6: read_specific_css returns an error value when the path is no regular
\* file or its bytes do not decode, and otherwise the file's text; it never
\* aborts and never changes the filesystem.
C6_ReadSpecificCss ==
  last.op = "read_specific_css"
  => /\ fs = pre
     /\ last.out # "panic"
     /\ IF is_file(pre, last.dir) /\ Utf8Ok(pre[last.dir].data)
        THEN last.out = "ok" /\ last.text = pre[last.dir].data
        ELSE last.out = "err"

C6_Witness ==
  /\ last.op = "read_specific_css"
  /\ is_file(pre, last.dir)
  /\ ~Utf8Ok(pre[last.dir].data)
  /\ last.out = "err"

\* C7: read_specific_config returns an error value for every path that is
\* missing, is no regular file, or holds bytes that do not decode.
C7_ReadSpecificConfigErrors ==
  ( /\ last.op = "read_specific_config"
    /\ ~(is_file(pre, last.dir) /\ Utf8Ok(pre[last.dir].data)) )
  => last.out = "err"

\* C8: no library call changes a regular file that was non-empty when the
\* call began, whether the call returns or aborts.
C8_NonEmptyUntouched ==
  last.op \in LibraryOps
  => \A p \in Paths : NonEmptyFile(pre, p) => fs[p] = pre[p]

C8_Witness ==
  /\ last.op = "create_config"
  /\ last.out = "panic"
  /\ NonEmptyFile(pre, LastTarget)
  /\ fs[LastTarget] = pre[LastTarget]

\* C9: when create_config_folder returns, it returns root/name and that path
\* is a directory, created if it was not one and left alone if it was; with
\* no home, no config root directory, or a file at root/name, it aborts.
C9_DirectoryResolution ==
  last.op = "create_config_folder"
  => LET d == Append(Root, last.name)
     IN /\ last.out \in {"ok", "panic"}
        /\ last.out = "ok"
           => /\ last.rpath = d
              /\ is_dir(fs, d)
              /\ fs = IF is_dir(pre, d) THEN pre ELSE [pre EXCEPT ![d] = Dir]
        /\ last.out = "panic" => fs = pre
        /\ (last.base /\ is_dir(pre, d)) => last.out = "ok"
        /\ (~last.base \/ ~is_dir(pre, Root) \/ is_file(pre, d)) => last.out = "panic"

C9_Witness ==
  /\ last.op = "create_config_folder"
  /\ last.again
  /\ last.out = "ok"
  /\ last.rpath = AppDir
  /\ is_dir(fs, AppDir)

\* C10: once every process of the concurrent provisioning has returned, the
\* file holds exactly the default content.
C10_RaceBenign ==
  (\A p \in Procs : procs[p].pc = "done")
  => \A p \in Procs : fs[AppFile] = File(procs[p].content)

C10_Witness ==
  /\ \A p \in Procs : procs[p].pc = "done" /\ procs[p].empty
  /\ \A p \in Procs : fs[AppFile] = File(procs[p].content)

====
